---------------------------- MODULE Spec2Model ----------------------------
(***************************************************************************)
(* A model of Botan's BigInt base (src/math/bigint/bigint.cpp).            *)
(*                                                                         *)
(* A machine word, a byte and the 64-bit accumulator of get_substring are  *)
(* modelled as the set of the positions of their 1 bits, so that the       *)
(* bitwise operators of the code are set operations of fixed width:        *)
(*   a | b  is  a \cup b,   a & b  is  a \cap b,   a << k and a >> k move  *)
(*   the positions and drop what leaves the width.                         *)
(* A BigInt is the record [reg, sign]: reg is the limb vector, least       *)
(* significant limb first (reg[j] of the code is reg[j+1] here), Len(reg)  *)
(* is size(), sign is the member signedness.                               *)
(***************************************************************************)
EXTENDS Integers, Sequences, FiniteSets, TLC

VARIABLES x, op, old, ret

vars == <<x, op, old, ret>>

\* sizeof(word): the build's limb width in bytes
WORD_BYTES == 4

\* MP_WORD_BITS of the build
MP_WORD_BITS == 8 * WORD_BYTES

\* the block size every resize of reg is rounded to
BLOCK == 8

\* the widest substring get_substring accepts
MAX_SUBSTRING == 32

\* sizeof(u64bit)
U64_BYTES == 8

\* the precision of int, the type of the literal 1 in (1 << length)
INT_BITS == 32

\* the capacity of the model's BigInts is at most BLOCK * MaxBlocks limbs
MaxBlocks == 2

\* the strings given to the string constructor have at most MaxStrLen characters
MaxStrLen == 5

Positive == "Positive"

Negative == "Negative"

Signs == {Positive, Negative}

Bases == {"Binary", "Octal", "Decimal", "Hexadecimal"}

MaxCap == BLOCK * MaxBlocks

--------------------------------------------------------------------------
(* Words as sets of bit positions *)

Max(S) == CHOOSE m \in S : \A k \in S : k <= m

Width(w) == 0 .. (w - 1)

\* a << k in an unsigned type of the given width
ShiftLeft(a, k, width) == {i + k : i \in a} \cap Width(width)

\* a >> k
ShiftRight(a, k) == {i - k : i \in {j \in a : j >= k}}

\* a < b for two unsigned values
WordLess(a, b) == a # b /\ Max((a \ b) \cup (b \ a)) \in b

\* the bits of a non-negative integer below 2^31
RECURSIVE Pow2(_)
Pow2(n) == IF n = 0 THEN 1 ELSE 2 * Pow2(n - 1)

IntToBits(n) == {i \in 0 .. 30 : (n \div Pow2(i)) % 2 = 1}

--------------------------------------------------------------------------
(* The members of BigInt declared in the header and the helpers of other  *)
(* headers that bigint.cpp calls                                          *)

\* round_up<size_t>(n, align_to): the least multiple of align_to that is >= n
round_up(n, align_to) ==
    IF align_to = 0 THEN n
    ELSE IF n % align_to # 0 THEN n + (align_to - (n % align_to)) ELSE n

\* reg.resize(n): the first n limbs are kept, new limbs are zero
Resize(reg, n) == [i \in 1 .. n |-> IF i <= Len(reg) THEN reg[i] ELSE {}]

size(b) == Len(b.reg)

word_at(b, n) == IF n < size(b) THEN b.reg[n + 1] ELSE {}

\* the number of limbs left after trimming the most significant zero limbs
sig_words(b) ==
    IF \A i \in 1 .. Len(b.reg) : b.reg[i] = {} THEN 0
    ELSE Max({i \in 1 .. Len(b.reg) : b.reg[i] # {}})

is_zero(b) == sig_words(b) = 0

sign(b) == b.sign

is_negative(b) == sign(b) = Negative

is_positive(b) == sign(b) = Positive

\* clear(): the value becomes canonical zero, the capacity stays
clear(b) == [reg |-> [i \in 1 .. Len(b.reg) |-> {}], sign |-> Positive]

\* get_byte(byte_num, input): byte byte_num of a limb, byte 0 the most significant
get_byte(byte_num, input) ==
    ShiftRight(input, 8 * (WORD_BYTES - 1 - byte_num)) \cap Width(8)

\* bigint_cmp(x, x_size, y, y_size): three-way comparison of two magnitudes
RECURSIVE bigint_cmp_words(_, _, _)
bigint_cmp_words(xr, yr, j) ==
    IF j = 0 THEN 0
    ELSE IF WordLess(yr[j], xr[j]) THEN 1
    ELSE IF WordLess(xr[j], yr[j]) THEN -1
    ELSE bigint_cmp_words(xr, yr, j - 1)

bigint_cmp(xr, x_size, yr, y_size) ==
    IF x_size < y_size THEN -1
    ELSE IF x_size > y_size THEN 1
    ELSE bigint_cmp_words(xr, yr, x_size)

--------------------------------------------------------------------------
(* Sign management *)

\* a set_sign that stores the sign without looking at the value
set_sign_unnormalized(b, s) == [b EXCEPT !.sign = s]

set_sign(b, s) ==
    IF is_zero(b) THEN [b EXCEPT !.sign = Positive]
    ELSE [b EXCEPT !.sign = s]

reverse_sign(b) == IF sign(b) = Positive THEN Negative ELSE Positive

flip_sign(b) == set_sign(b, reverse_sign(b))

--------------------------------------------------------------------------
(* Constructors *)

\* the object before a constructor body runs: no limbs, signedness not yet
\* written (every constructor that reads it first goes through set_sign,
\* which overwrites it whatever it held)
Fresh(s) == [reg |-> <<>>, sign |-> s]

\* BigInt(u64bit n)
BigInt_u64(n) ==
    LET limbs_needed == U64_BYTES \div WORD_BYTES
        b0 == set_sign(Fresh(Negative), Positive)
    IN  IF n = {} THEN b0
        ELSE [b0 EXCEPT !.reg =
                [i \in 1 .. 4 * limbs_needed |->
                    IF i <= limbs_needed
                    THEN ShiftRight(n, (i - 1) * MP_WORD_BITS) \cap Width(MP_WORD_BITS)
                    ELSE {}]]

\* BigInt(Sign s, size_t size)
BigInt_sign_size(s, n) == [reg |-> Resize(<<>>, round_up(n, BLOCK)), sign |-> s]

\* BigInt(const BigInt& b)
BigInt_copy(b) ==
    LET b_words == sig_words(b)
    IN  IF b_words # 0
        THEN set_sign([reg |-> [i \in 1 .. round_up(b_words, BLOCK) |->
                                   IF i <= b_words THEN b.reg[i] ELSE {}],
                       sign |-> Positive],
                      sign(b))
        ELSE set_sign([reg |-> Resize(<<>>, 2), sign |-> Negative], Positive)

\* operator-()
negate(b) == flip_sign(BigInt_copy(b))

\* abs()
abs(b) == set_sign(BigInt_copy(b), Positive)

--------------------------------------------------------------------------
(* Growth *)

\* a grow_reg that forgets the limbs already allocated
grow_reg_from_zero(b, n) == [b EXCEPT !.reg = Resize(b.reg, round_up(n, BLOCK))]

grow_reg(b, n) == [b EXCEPT !.reg = Resize(b.reg, round_up(size(b) + n, BLOCK))]

grow_to(b, n) ==
    IF n > size(b) THEN [b EXCEPT !.reg = Resize(b.reg, round_up(n, BLOCK))]
    ELSE b

--------------------------------------------------------------------------
(* Comparison *)

cmp(b, n, check_signs) ==
    LET m == bigint_cmp(b.reg, sig_words(b), n.reg, sig_words(n))
    IN  IF check_signs /\ is_positive(n) /\ is_negative(b) THEN -1
        ELSE IF check_signs /\ is_negative(n) /\ is_positive(b) THEN 1
        ELSE IF check_signs /\ is_negative(n) /\ is_negative(b) THEN -m
        ELSE m

--------------------------------------------------------------------------
(* Bit and byte accessors *)

byte_at(b, n) ==
    LET word_num == n \div WORD_BYTES
        byte_num == n % WORD_BYTES
    IN  IF word_num >= size(b) THEN {}
        ELSE get_byte(WORD_BYTES - byte_num - 1, b.reg[word_num + 1])

get_bit(b, n) ==
    0 \in ShiftRight(word_at(b, n \div MP_WORD_BITS), n % MP_WORD_BITS)

\* the loop of get_substring: the 8 bytes from byte offset/8 upwards, in a u64bit
RECURSIVE substring_piece(_, _, _, _)
substring_piece(b, offset, j, piece) ==
    IF j = 8 THEN piece
    ELSE substring_piece(b, offset, j + 1,
            ShiftLeft(piece, 8, 64) \cup byte_at(b, (offset \div 8) + (7 - j)))

\* u64bit mask = (1 << length) - 1, computed in int: the values the build can
\* leave in mask. Up to INT_BITS - 2 the shift and the subtraction are exact.
\* At INT_BITS - 1 the subtraction overflows int: it wraps to INT_MAX, whose
\* conversion has the low 31 bits, or is carried out in a wider register, which
\* also leaves bits 32..63 set. At INT_BITS the shift count is the width of
\* int: the count is taken modulo the width (1 << 0, mask 0) or the shift
\* gives 0 (mask all ones).
substring_mask(length) ==
    IF length < INT_BITS - 1 THEN {Width(length)}
    ELSE IF length = INT_BITS - 1
    THEN {Width(INT_BITS - 1), Width(64) \ {INT_BITS - 1}}
    ELSE {{}, Width(64)}

\* the values get_substring can return, or the exception it throws
get_substring(b, offset, length) ==
    IF length > MAX_SUBSTRING THEN {"Invalid_Argument"}
    ELSE LET piece == substring_piece(b, offset, 0, {})
             shift == offset % 8
         IN  {(ShiftRight(piece, shift) \cap mask) \cap Width(32) :
                 mask \in substring_mask(length)}

\* a set_bit that never grows the storage
set_bit_no_grow(b, n) ==
    LET which == n \div MP_WORD_BITS
    IN  IF which >= size(b) THEN b
        ELSE [b EXCEPT !.reg[which + 1] = @ \cup {n % MP_WORD_BITS}]

set_bit(b, n) ==
    LET which == n \div MP_WORD_BITS
        mask == ShiftLeft({0}, n % MP_WORD_BITS, MP_WORD_BITS)
        b1 == IF which >= size(b) THEN grow_to(b, which + 1) ELSE b
    IN  [b1 EXCEPT !.reg[which + 1] = @ \cup mask]

clear_bit(b, n) ==
    LET which == n \div MP_WORD_BITS
        mask == ShiftLeft({0}, n % MP_WORD_BITS, MP_WORD_BITS)
    IN  IF which < size(b)
        THEN [b EXCEPT !.reg[which + 1] = @ \cap (Width(MP_WORD_BITS) \ mask)]
        ELSE b

--------------------------------------------------------------------------
(* Size queries *)

\* the loop of bits(): the top bit is looked for from MP_WORD_TOP_BIT downwards
RECURSIVE bits_scan(_, _)
bits_scan(top_word, top_bits) ==
    IF top_bits # 0 /\ (top_bits - 1) \notin top_word
    THEN bits_scan(top_word, top_bits - 1)
    ELSE top_bits

bits(b) ==
    LET words == sig_words(b)
    IN  IF words = 0 THEN 0
        ELSE LET full_words == words - 1
             IN  full_words * MP_WORD_BITS
                    + bits_scan(word_at(b, full_words), MP_WORD_BITS)

bytes(b) == (bits(b) + 7) \div 8

\* LOG_2_BASE_10 = 0.30102999566 = (LOG_HI * 10^5 + LOG_LO) / 10^11
LOG_HI == 301029

LOG_LO == 99566

\* static_cast<size_t>((n * LOG_2_BASE_10) + 1), computed exactly
decimal_estimate(n) ==
    ((n * LOG_HI + ((n * LOG_LO) \div 100000)) \div 1000000) + 1

\* an encoded_size whose octal size drops the rounding
encoded_size_octal_floor(b, base) ==
    IF base = "Binary" THEN bytes(b)
    ELSE IF base = "Hexadecimal" THEN 2 * bytes(b)
    ELSE IF base = "Octal" THEN bits(b) \div 3
    ELSE IF base = "Decimal" THEN decimal_estimate(bits(b))
    ELSE "Invalid_Argument"

encoded_size(b, base) ==
    IF base = "Binary" THEN bytes(b)
    ELSE IF base = "Hexadecimal" THEN 2 * bytes(b)
    ELSE IF base = "Octal" THEN (bits(b) + 2) \div 3
    ELSE IF base = "Decimal" THEN decimal_estimate(bits(b))
    ELSE "Invalid_Argument"

\* a mask_bits that masks the wrong limb when n is a multiple of the word width
mask_bits_off_by_one(b, n) ==
    IF n = 0 THEN clear(b)
    ELSE IF n >= bits(b) THEN b
    ELSE LET top_word == (n - 1) \div MP_WORD_BITS
             mask == Width(n % MP_WORD_BITS)
         IN  [b EXCEPT !.reg = [i \in 1 .. Len(b.reg) |->
                 IF i - 1 > top_word THEN {}
                 ELSE IF i - 1 = top_word THEN b.reg[i] \cap mask
                 ELSE b.reg[i]]]

mask_bits(b, n) ==
    IF n = 0 THEN clear(b)
    ELSE IF n >= bits(b) THEN b
    ELSE LET top_word == n \div MP_WORD_BITS
             mask == Width(n % MP_WORD_BITS)
         IN  [b EXCEPT !.reg = [i \in 1 .. Len(b.reg) |->
                 IF top_word < size(b) /\ i - 1 > top_word THEN {}
                 ELSE IF i - 1 = top_word THEN b.reg[i] \cap mask
                 ELSE b.reg[i]]]

--------------------------------------------------------------------------
(* Binary codec: a buffer is a sequence of bytes, buf[k] of the code is   *)
(* buf[k+1] here                                                          *)

binary_encode(b) ==
    LET sig_bytes == bytes(b)
    IN  [i \in 1 .. sig_bytes |-> byte_at(b, sig_bytes - i)]

\* the inner loop over a whole word: k runs from WORD_BYTES down to 1
RECURSIVE decode_word(_, _, _, _)
decode_word(limb, buf, top, k) ==
    IF k = 0 THEN limb
    ELSE decode_word(ShiftLeft(limb, 8, MP_WORD_BITS) \cup buf[(top - k) + 1],
                     buf, top, k - 1)

\* the last loop: the length % WORD_BYTES leading bytes
RECURSIVE decode_rest(_, _, _, _)
decode_rest(limb, buf, j, n) ==
    IF j = n THEN limb
    ELSE decode_rest(ShiftLeft(limb, 8, MP_WORD_BITS) \cup buf[j + 1], buf, j + 1, n)

\* a binary_decode that reads the leading bytes in the wrong order
binary_decode_rest_reversed(b, buf, length) ==
    LET b1 == clear(b)
        reg1 == Resize(b1.reg, round_up((length \div WORD_BYTES) + 1, BLOCK))
        whole == length \div WORD_BYTES
        rev == [i \in 1 .. Len(buf) |->
                   IF i <= length % WORD_BYTES
                   THEN buf[(length % WORD_BYTES) + 1 - i] ELSE buf[i]]
    IN  [b1 EXCEPT !.reg = [i \in 1 .. Len(reg1) |->
            IF i - 1 < whole
            THEN decode_word(reg1[i], buf, length - WORD_BYTES * (i - 1), WORD_BYTES)
            ELSE IF i - 1 = whole
            THEN decode_rest(reg1[i], rev, 0, length % WORD_BYTES)
            ELSE reg1[i]]]

binary_decode(b, buf, length) ==
    LET b1 == clear(b)
        reg1 == Resize(b1.reg, round_up((length \div WORD_BYTES) + 1, BLOCK))
        whole == length \div WORD_BYTES
    IN  [b1 EXCEPT !.reg = [i \in 1 .. Len(reg1) |->
            IF i - 1 < whole
            THEN decode_word(reg1[i], buf, length - WORD_BYTES * (i - 1), WORD_BYTES)
            ELSE IF i - 1 = whole
            THEN decode_rest(reg1[i], buf, 0, length % WORD_BYTES)
            ELSE reg1[i]]]

--------------------------------------------------------------------------
(* The digit decoder and the constructors that use it: a string is a      *)
(* sequence of characters                                                 *)

Chars == {"-", "0", "x", "1", "9"}

Digits == {"0", "1", "9"}

DigitVal(c) == IF c = "0" THEN 0 ELSE IF c = "1" THEN 1 ELSE 9

Radix(base) ==
    IF base = "Hexadecimal" THEN 16 ELSE IF base = "Octal" THEN 8 ELSE 10

\* the limbs of a magnitude given as a set of bit positions
Limbs(m, n) ==
    [i \in 1 .. n |-> ShiftRight(m, (i - 1) * MP_WORD_BITS) \cap Width(MP_WORD_BITS)]

RECURSIVE DigitsValue(_, _, _)
DigitsValue(text, radix, acc) ==
    IF text = <<>> THEN acc
    ELSE DigitsValue(Tail(text), radix, acc * radix + DigitVal(Head(text)))

\* decode(buf, length, base) for the text bases: the magnitude the digits
\* denote, as a Positive BigInt; ok is FALSE when a digit is malformed and
\* the decoder throws
decode(text, base) ==
    IF \E i \in 1 .. Len(text) :
          text[i] \notin Digits \/ DigitVal(text[i]) >= Radix(base)
    THEN [ok |-> FALSE, val |-> Fresh(Positive)]
    ELSE [ok |-> TRUE,
          val |-> [reg |-> Limbs(IntToBits(DigitsValue(text, Radix(base), 0)), BLOCK),
                   sign |-> Positive]]

\* a parse that takes "0x" for the hexadecimal marker even when nothing follows
str_markers_no_length_check(str) ==
    LET negative == Len(str) > 0 /\ str[1] = "-"
        m0 == IF negative THEN 1 ELSE 0
    IN  IF Len(str) >= m0 + 2 /\ str[m0 + 1] = "0" /\ str[m0 + 2] = "x"
        THEN [negative |-> negative, markers |-> m0 + 2, base |-> "Hexadecimal"]
        ELSE IF Len(str) > m0 + 1 /\ str[m0 + 1] = "0"
        THEN [negative |-> negative, markers |-> m0 + 1, base |-> "Octal"]
        ELSE [negative |-> negative, markers |-> m0, base |-> "Decimal"]

\* the first lines of the string constructor: the sign marker, the base and
\* the number of marker characters
str_markers(str) ==
    LET negative == Len(str) > 0 /\ str[1] = "-"
        m0 == IF negative THEN 1 ELSE 0
    IN  IF Len(str) > m0 + 2 /\ str[m0 + 1] = "0" /\ str[m0 + 2] = "x"
        THEN [negative |-> negative, markers |-> m0 + 2, base |-> "Hexadecimal"]
        ELSE IF Len(str) > m0 + 1 /\ str[m0 + 1] = "0"
        THEN [negative |-> negative, markers |-> m0 + 1, base |-> "Octal"]
        ELSE [negative |-> negative, markers |-> m0, base |-> "Decimal"]

\* BigInt(const std::string& str): the text handed to the decoder, the base,
\* whether the decoder accepted it (ok) and, when it did, the object built
BigInt_str(str) ==
    LET p == str_markers(str)
        text == SubSeq(str, p.markers + 1, Len(str))
        d == decode(text, p.base)
    IN  [base |-> p.base, text |-> text, ok |-> d.ok,
         val |-> IF p.negative THEN set_sign(d.val, Negative)
                 ELSE set_sign(d.val, Positive)]

\* BigInt(const byte input[], size_t length, Base base) with base Binary:
\* the decoder is binary_decode on a new object
BigInt_bytes(buf, length) ==
    binary_decode(set_sign(Fresh(Negative), Positive), buf, length)

--------------------------------------------------------------------------
(* The inputs the operations are tried with *)

\* u64bit arguments: 0, 3, 255, 2^32 - 1, 2^32 + 2^4
U64Values == {{}, {0, 1}, Width(8), Width(32), {4, 32}}

SizeArgs == {0, 1, BLOCK, BLOCK + 1}

GrowArgs == {0, 1, BLOCK, BLOCK + 1}

\* bit numbers: in the first limb, in the second, the last of the first block,
\* the first beyond it
BitArgs == {0, MP_WORD_BITS, BLOCK * MP_WORD_BITS - 1, BLOCK * MP_WORD_BITS}

MaskArgs == {0, 4, 8, MP_WORD_BITS, MP_WORD_BITS + 1, BLOCK * MP_WORD_BITS + 1}

SubOffsets == {0, 4, MP_WORD_BITS - 1}

SubLengths == {0, 8, INT_BITS - 1, MAX_SUBSTRING, MAX_SUBSTRING + 1}

\* byte buffers: empty, {0x01,0x00,0x00}, all zero, {0xFF},
\* {0x01,0x00,0x00,0x00,0x80}, {0x80,0x00,0x00,0x01}
Buffers ==
    {<<>>, <<{0}, {}, {}>>, <<{}, {}>>, <<Width(8)>>,
     <<{0}, {}, {}, {}, {7}>>, <<{7}, {}, {}, {0}>>}

\* BigInts a caller can construct, used as the second operand of cmp and as
\* the object a buffer is decoded into
Operands ==
    {BigInt_u64({})}
    \cup {BigInt_sign_size(Negative, BLOCK + 1)}
    \cup {set_sign(BigInt_u64(n), s) : n \in {{0, 1}, {0, 2}, {4, 32}}, s \in Signs}

\* strings for the string constructor
SomeStrings ==
    {<<>>, <<"-", "0", "x", "1", "0">>, <<"-", "0">>, <<"0", "1", "1">>,
     <<"-", "9">>, <<"0", "x">>}

RECURSIVE StringsOfLen(_)
StringsOfLen(n) ==
    IF n = 0 THEN {<<>>}
    ELSE {Append(t, c) : t \in StringsOfLen(n - 1), c \in Chars}

AllStrings == UNION {StringsOfLen(n) : n \in 0 .. MaxStrLen}

--------------------------------------------------------------------------
(* The state machine: x is the BigInt the caller works on. A call is made  *)
(* when the caller is between calls (op.name = "idle"); it leaves in op    *)
(* the operation and its arguments, in old the BigInt before the call and  *)
(* in ret what the call returned, until the caller goes on (Continue).     *)

Idle == [name |-> "idle", arg |-> <<>>]

\* the caller is between calls
Ready == op = Idle

Step(name, arg, nx, r) ==
    /\ x' = nx
    /\ op' = [name |-> name, arg |-> arg]
    /\ old' = x
    /\ ret' = r

Init ==
    /\ x = BigInt_u64({})
    /\ op = Idle
    /\ old = BigInt_u64({})
    /\ ret = "void"

Construct_u64 ==
    /\ Ready
    /\ \E n \in U64Values : Step("BigInt_u64", <<n>>, BigInt_u64(n), "void")

Construct_sign_size ==
    /\ Ready
    /\ \E s \in Signs, n \in SizeArgs :
           /\ round_up(n, BLOCK) <= MaxCap
           /\ Step("BigInt_sign_size", <<s, n>>, BigInt_sign_size(s, n), "void")

Construct_copy ==
    /\ Ready
    /\ Step("BigInt_copy", <<>>, BigInt_copy(x), "void")

Construct_str(strings) ==
    /\ Ready
    /\ \E str \in strings :
           LET r == BigInt_str(str)
           IN  Step("BigInt_str", <<str>>, IF r.ok THEN r.val ELSE x,
                    [ok |-> r.ok, base |-> r.base, text |-> r.text])

Construct_bytes ==
    /\ Ready
    /\ \E buf \in Buffers :
           Step("BigInt_bytes", <<buf>>, BigInt_bytes(buf, Len(buf)), "void")

Do_set_sign ==
    /\ Ready
    /\ \E s \in Signs : Step("set_sign", <<s>>, set_sign(x, s), "void")

Do_flip_sign ==
    /\ Ready
    /\ Step("flip_sign", <<>>, flip_sign(x), "void")

Do_negate ==
    /\ Ready
    /\ Step("negate", <<>>, negate(x), "void")

Do_abs ==
    /\ Ready
    /\ Step("abs", <<>>, abs(x), "void")

Do_grow_reg ==
    /\ Ready
    /\ \E n \in GrowArgs :
           /\ round_up(size(x) + n, BLOCK) <= MaxCap
           /\ Step("grow_reg", <<n>>, grow_reg(x, n), "void")

Do_grow_to ==
    /\ Ready
    /\ \E n \in GrowArgs \cup {MaxCap} :
           /\ round_up(n, BLOCK) <= MaxCap
           /\ Step("grow_to", <<n>>, grow_to(x, n), "void")

Do_cmp ==
    /\ Ready
    /\ \E n \in Operands, check_signs \in BOOLEAN :
           Step("cmp", <<n, check_signs>>, x, cmp(x, n, check_signs))

Do_get_bit ==
    /\ Ready
    /\ \E n \in BitArgs : Step("get_bit", <<n>>, x, get_bit(x, n))

Do_get_substring ==
    /\ Ready
    /\ \E offset \in SubOffsets, length \in SubLengths :
           \E r \in get_substring(x, offset, length) :
               Step("get_substring", <<offset, length>>, x, r)

Do_set_bit ==
    /\ Ready
    /\ \E n \in BitArgs :
           /\ (n \div MP_WORD_BITS) + 1 <= MaxCap
           /\ Step("set_bit", <<n>>, set_bit(x, n), "void")

Do_clear_bit ==
    /\ Ready
    /\ \E n \in BitArgs : Step("clear_bit", <<n>>, clear_bit(x, n), "void")

Do_mask_bits ==
    /\ Ready
    /\ \E n \in MaskArgs : Step("mask_bits", <<n>>, mask_bits(x, n), "void")

Do_encoded_size ==
    /\ Ready
    /\ \E base \in Bases \cup {"Unknown"} :
           Step("encoded_size", <<base>>, x, encoded_size(x, base))

Do_binary_encode ==
    /\ Ready
    /\ Step("binary_encode", <<>>, x, binary_encode(x))

Do_binary_decode ==
    /\ Ready
    /\ \E buf \in Buffers :
           Step("binary_decode", <<buf>>, binary_decode(x, buf, Len(buf)), "void")

\* the buffer binary_encode has just filled is decoded into another BigInt,
\* which the caller goes on with
Do_decode_encoded ==
    /\ op.name = "binary_encode"
    /\ \E t \in Operands \cup {x} :
          /\ x' = binary_decode(t, ret, Len(ret))
          /\ op' = [name |-> "decode_encoded", arg |-> <<t>>]
          /\ old' = x
          /\ ret' = "void"

\* the caller has used the result and is ready for the next call
Continue ==
    /\ op # Idle
    /\ op' = Idle
    /\ old' = x
    /\ ret' = "void"
    /\ x' = x

Next ==
    \/ Construct_u64
    \/ Construct_sign_size
    \/ Construct_copy
    \/ Construct_str(SomeStrings)
    \/ Construct_bytes
    \/ Do_set_sign
    \/ Do_flip_sign
    \/ Do_negate
    \/ Do_abs
    \/ Do_grow_reg
    \/ Do_grow_to
    \/ Do_cmp
    \/ Do_get_bit
    \/ Do_get_substring
    \/ Do_set_bit
    \/ Do_clear_bit
    \/ Do_mask_bits
    \/ Do_encoded_size
    \/ Do_binary_encode
    \/ Do_binary_decode
    \/ Do_decode_encoded
    \/ Continue

Spec == Init /\ [][Next]_vars

\* the string constructor alone, on every string of at most MaxStrLen characters
NextStr == Construct_str(AllStrings)

SpecStr == Init /\ [][NextStr]_vars

--------------------------------------------------------------------------
(* What the properties are stated in: the magnitude of a BigInt as the    *)
(* set of the positions of its 1 bits, and arithmetic on such sets        *)

Mag(b) ==
    UNION {{MP_WORD_BITS * (i - 1) + k : k \in b.reg[i]} : i \in 1 .. Len(b.reg)}

\* |a| < |b|
MagLess(A, B) == A # B /\ Max((A \ B) \cup (B \ A)) \in B

\* the length in bits of a magnitude
BitLength(M) == IF M = {} THEN 0 ELSE Max(M) + 1

\* the value is below zero
IsBelowZero(b) == b.sign = Negative /\ Mag(b) # {}

\* a < b as signed values
SignedLess(a, b) ==
    IF IsBelowZero(a) /\ ~IsBelowZero(b) THEN TRUE
    ELSE IF ~IsBelowZero(a) /\ IsBelowZero(b) THEN FALSE
    ELSE IF IsBelowZero(a) THEN MagLess(Mag(b), Mag(a))
    ELSE MagLess(Mag(a), Mag(b))

Sgn(n) == IF n < 0 THEN -1 ELSE IF n > 0 THEN 1 ELSE 0

\* the number of decimal digits of a magnitude (1 for zero), by long division
\* of its base-65536 digits by 10000
RECURSIVE ChunkValue(_, _, _)
ChunkValue(M, base, k) ==
    IF k = 16 THEN 0
    ELSE (IF base + k \in M THEN Pow2(k) ELSE 0) + ChunkValue(M, base, k + 1)

Chunks(M) ==
    LET n == (BitLength(M) \div 16) + 1
    IN  [i \in 1 .. n |-> ChunkValue(M, 16 * (n - i), 0)]

RECURSIVE LongDiv(_, _, _, _)
LongDiv(digs, i, rem, q) ==
    IF i > Len(digs) THEN [q |-> q, rem |-> rem]
    ELSE LET cur == rem * 65536 + digs[i]
         IN  LongDiv(digs, i + 1, cur % 10000,
                     IF q = <<>> /\ cur \div 10000 = 0 THEN q
                     ELSE Append(q, cur \div 10000))

RECURSIVE CountDigits(_, _)
CountDigits(digs, count) ==
    LET d == LongDiv(digs, 1, 0, <<>>)
    IN  IF d.q = <<>>
        THEN count + (IF d.rem < 10 THEN 1 ELSE IF d.rem < 100 THEN 2
                      ELSE IF d.rem < 1000 THEN 3 ELSE 4)
        ELSE CountDigits(d.q, count + 4)

NumDigits(M) == CountDigits(Chunks(M), 0)

\* the least k with d * k >= n
CeilDiv(n, d) == (n + d - 1) \div d

\* the bits of the magnitude M from bit offset on, length of them
BitsFrom(M, offset, length) ==
    {i - offset : i \in {j \in M : j >= offset /\ j < offset + length}}

\* str begins with the characters of pre
StartsWith(str, pre) == Len(str) >= Len(pre) /\ SubSeq(str, 1, Len(pre)) = pre

--------------------------------------------------------------------------
(* Properties *)

\* C1: after set_sign, flip_sign, unary negation or abs, a value whose
\* magnitude is zero has sign Positive; on a non-zero magnitude set_sign(s)
\* leaves the sign s and flip_sign leaves the opposite of the sign before.
C1_SignOperations ==
    op.name \in {"set_sign", "flip_sign", "negate", "abs"} =>
        /\ Mag(x) = {} => x.sign = Positive
        /\ (op.name = "set_sign" /\ Mag(x) # {}) => x.sign = op.arg[1]
        /\ (op.name = "flip_sign" /\ Mag(x) # {}) =>
              /\ x.sign # old.sign
              /\ x.sign \in Signs

\* C1 witness: flip_sign has acted on a zero whose sign was Negative
C1_Witness ==
    /\ op.name = "flip_sign"
    /\ Mag(old) = {}
    /\ old.sign = Negative
    /\ x.sign = Positive

\* C2: a buffer written by binary_encode and decoded with binary_decode into
\* any BigInt gives back the magnitude that was encoded; binary_encode writes
\* bytes() bytes, the most significant first; decoding {0x01,0x00,0x00} leaves
\* one significant limb, 0x010000.
C2_RoundTrip ==
    /\ op.name = "decode_encoded" => Mag(x) = Mag(old)
    /\ op.name = "binary_encode" =>
          /\ Len(ret) = CeilDiv(BitLength(Mag(x)), 8)
          /\ \A i \in 1 .. Len(ret) :
                ret[i] = BitsFrom(Mag(x), 8 * (Len(ret) - i), 8)
    /\ (op.name = "binary_decode" /\ op.arg[1] = <<{0}, {}, {}>>) =>
          /\ sig_words(x) = 1
          /\ x.reg[1] = {16}

\* C2 witness: a magnitude of three bytes, not a whole number of words, has
\* been encoded and decoded into a BigInt that held another, non-zero value
C2_Witness ==
    /\ op.name = "decode_encoded"
    /\ bytes(old) = 3
    /\ Mag(op.arg[1]) # {}
    /\ Mag(op.arg[1]) # Mag(old)
    /\ Mag(x) = Mag(old)

\* C3: after set_bit(n), get_bit(n) is true; after clear_bit(n), get_bit(n)
\* is false; get_bit(m) of every other bit m is what it was before the call.
C3_SetClearBit ==
    op.name \in {"set_bit", "clear_bit"} =>
        /\ get_bit(x, op.arg[1]) = (op.name = "set_bit")
        /\ \A m \in 0 .. (MP_WORD_BITS * (MaxCap + 1)) :
              m # op.arg[1] => get_bit(x, m) = get_bit(old, m)

\* C3 witness: set_bit has set a bit beyond the capacity of a BigInt that
\* held limbs already
C3_Witness ==
    /\ op.name = "set_bit"
    /\ size(old) > 0
    /\ op.arg[1] >= MP_WORD_BITS * size(old)
    /\ get_bit(x, op.arg[1])

\* C4: mask_bits(n) leaves the magnitude |v| mod 2^n: canonical zero for
\* n = 0, the BigInt as it was for 0 < n and n >= bits(), the low n bits
\* otherwise, also when n is a multiple of the word width.
C4_MaskBits ==
    op.name = "mask_bits" =>
        /\ Mag(x) = Mag(old) \cap Width(op.arg[1])
        /\ op.arg[1] = 0 => (Mag(x) = {} /\ x.sign = Positive)
        /\ (op.arg[1] > 0 /\ op.arg[1] >= BitLength(Mag(old))) => x = old
        /\ size(x) = size(old)

\* C4 witness: mask_bits has cut a value at a multiple of the word width
C4_Witness ==
    /\ op.name = "mask_bits"
    /\ op.arg[1] = MP_WORD_BITS
    /\ BitLength(Mag(old)) > MP_WORD_BITS
    /\ Mag(x) # {}
    /\ Mag(x) # Mag(old)

\* C5: get_substring(offset, length) throws for length > 32 and for every
\* length from 0 to 32 returns floor(|v| / 2^offset) mod 2^length.
C5_Substring ==
    op.name = "get_substring" =>
        IF op.arg[2] > MAX_SUBSTRING THEN ret = "Invalid_Argument"
        ELSE ret = BitsFrom(Mag(x), op.arg[1], op.arg[2])

\* C6: cmp(b, true) is negative, zero or positive as the signed value of
\* the BigInt is below, equal to or above that of b; cmp(b, false) the same
\* for the magnitudes.
C6_Cmp ==
    op.name = "cmp" =>
        LET n == op.arg[1]
        IN  IF op.arg[2]
            THEN Sgn(ret) = (IF SignedLess(x, n) THEN -1
                             ELSE IF SignedLess(n, x) THEN 1 ELSE 0)
            ELSE Sgn(ret) = (IF MagLess(Mag(x), Mag(n)) THEN -1
                             ELSE IF MagLess(Mag(n), Mag(x)) THEN 1 ELSE 0)

\* what C7 states of every base but Octal: bits() is the bit length (0 for
\* zero), bytes() is ceil(bits()/8), Binary is bytes(), Hexadecimal is
\* 2*bytes(), Decimal is floor(bits()*log10(2)) + 1 (the number of digits of
\* 2^bits()), which is the number of decimal digits of the magnitude or one more
C7_OtherBases ==
    /\ bits(x) = BitLength(Mag(x))
    /\ bytes(x) = CeilDiv(bits(x), 8)
    /\ Mag(x) = {} => (bits(x) = 0 /\ bytes(x) = 0)
    /\ (op.name = "encoded_size" /\ op.arg[1] = "Binary") => ret = bytes(x)
    /\ (op.name = "encoded_size" /\ op.arg[1] = "Hexadecimal") => ret = 2 * bytes(x)
    /\ (op.name = "encoded_size" /\ op.arg[1] = "Decimal") =>
          /\ ret = NumDigits({bits(x)})
          /\ ret >= NumDigits(Mag(x))
          /\ ret <= NumDigits(Mag(x)) + 1

AfterSign(str) ==
    IF StartsWith(str, <<"-">>) THEN SubSeq(str, 2, Len(str)) ELSE str

\* what C8 states of the sign and of its example: the result is Negative
\* exactly when the string began with '-' and the magnitude is non-zero;
\* "-0x10" gives Negative, magnitude 16, 5 bits
C8_SignAndExample ==
    (op.name = "BigInt_str" /\ ret.ok) =>
        /\ (x.sign = Negative) = (StartsWith(op.arg[1], <<"-">>) /\ Mag(x) # {})
        /\ x.sign \in Signs
        /\ op.arg[1] = <<"-", "0", "x", "1", "0">> =>
              (x.sign = Negative /\ Mag(x) = {4} /\ bits(x) = 5)

\* C8 as amended: after the optional '-', the text is hexadecimal when it
\* starts with "0x" and at least one character follows the marker; otherwise
\* octal when it starts with '0' and at least one character follows it (so
\* "0x" alone is octal with the text "x"); otherwise decimal (so "0" alone
\* is decimal with the text "0"). The decoder of that base gets exactly the text
\* after the markers; the sign is as stated.
C8_StringConstructor ==
    /\ C8_SignAndExample
    /\ op.name = "BigInt_str" =>
          LET rest == AfterSign(op.arg[1])
          IN  IF StartsWith(rest, <<"0", "x">>) /\ Len(rest) >= 3
              THEN ret.base = "Hexadecimal" /\ ret.text = SubSeq(rest, 3, Len(rest))
              ELSE IF StartsWith(rest, <<"0">>) /\ Len(rest) >= 2
              THEN ret.base = "Octal" /\ ret.text = SubSeq(rest, 2, Len(rest))
              ELSE ret.base = "Decimal" /\ ret.text = rest

\* C8 as stated: hexadecimal when the text after the '-' starts with "0x",
\* octal when it starts with a '0' not followed by 'x', decimal otherwise.
C8_Original ==
    /\ C8_SignAndExample
    /\ op.name = "BigInt_str" =>
          LET rest == AfterSign(op.arg[1])
          IN  IF StartsWith(rest, <<"0", "x">>)
              THEN ret.base = "Hexadecimal" /\ ret.text = SubSeq(rest, 3, Len(rest))
              ELSE IF StartsWith(rest, <<"0">>)
              THEN ret.base = "Octal" /\ ret.text = SubSeq(rest, 2, Len(rest))
              ELSE ret.base = "Decimal" /\ ret.text = rest

\* C8 witness: "-0x10" has been read as Negative 16 in base 16
C8_Witness ==
    /\ op.name = "BigInt_str"
    /\ op.arg[1] = <<"-", "0", "x", "1", "0">>
    /\ ret.ok
    /\ ret.base = "Hexadecimal"
    /\ ret.text = <<"1", "0">>
    /\ x.sign = Negative
    /\ Mag(x) = {4}

\* what C9 states of the capacity and the sign: the capacity never decreases,
\* is at least the old capacity + n after grow_reg(n), at least n after
\* grow_to(n) and unchanged when it was n already, a multiple of the block size
\* when it has changed; the sign is unchanged
C9_Capacity ==
    op.name \in {"grow_reg", "grow_to", "set_bit"} =>
        /\ size(x) >= size(old)
        /\ op.name = "grow_reg" => size(x) >= size(old) + op.arg[1]
        /\ op.name = "grow_to" =>
              /\ size(x) >= op.arg[1]
              /\ size(old) >= op.arg[1] => size(x) = size(old)
        /\ size(x) # size(old) => size(x) % BLOCK = 0
        /\ x.sign = old.sign

\* the limbs old held are the first limbs of x, and the limbs added are zero
LimbsKept ==
    /\ \A i \in 1 .. size(old) : x.reg[i] = old.reg[i]
    /\ \A i \in (size(old) + 1) .. size(x) : x.reg[i] = {}

\* C9 as amended: the capacity and the sign are as stated; grow_reg and
\* grow_to leave every limb unchanged and the added limbs zero; set_bit(n)
\* does so but for bit n % MP_WORD_BITS of limb n / MP_WORD_BITS, which it sets.
C9_Growth ==
    /\ C9_Capacity
    /\ op.name \in {"grow_reg", "grow_to"} => (LimbsKept /\ Mag(x) = Mag(old))
    /\ op.name = "set_bit" =>
          /\ \A i \in 1 .. size(x) :
                x.reg[i] \ (IF i = (op.arg[1] \div MP_WORD_BITS) + 1
                            THEN {op.arg[1] % MP_WORD_BITS} ELSE {})
                    = (IF i <= size(old) THEN old.reg[i] ELSE {})
                         \ (IF i = (op.arg[1] \div MP_WORD_BITS) + 1
                            THEN {op.arg[1] % MP_WORD_BITS} ELSE {})
          /\ (op.arg[1] % MP_WORD_BITS) \in x.reg[(op.arg[1] \div MP_WORD_BITS) + 1]

\* C9 as stated: every grow_reg, grow_to and set_bit call leaves the limbs
\* stored before unchanged and the added limbs zero.
C9_Original ==
    /\ C9_Capacity
    /\ op.name \in {"grow_reg", "grow_to", "set_bit"} => LimbsKept

\* C9 witness: grow_reg has added a block to a BigInt that held a value
C9_Witness ==
    /\ op.name = "grow_reg"
    /\ Mag(old) # {}
    /\ op.arg[1] = 1
    /\ size(x) = size(old) + BLOCK

\* C10: a BigInt whose magnitude is zero has sign Positive, in every state
\* the constructors and set_sign, flip_sign, set_bit, clear_bit, mask_bits
\* and binary_decode lead to.
C10_NoNegativeZero == Mag(x) = {} => x.sign = Positive

==========================================================================
